---- MODULE Spec2Model ----
(***************************************************************************)
(* The parallel aggregation engine of qthreadpool: the three executors     *)
(* (divideAndConquer of src/main.cc, divideAndConquer and threadPool of    *)
(* src/unnamed/part_000), the StatsTask they run and the shared            *)
(* accumulator the tasks merge into under a mutex.                         *)
(*                                                                         *)
(* Numbers.  The dataset holds integer-valued doubles (main rounds every   *)
(* value), so sums are exact and are modelled as integers.  A quotient of  *)
(* doubles is kept as the pair <<numerator, denominator>>.  A log-sum x is *)
(* kept as the integer e^x: adding ln|v| multiplies by |v|, 0.0 is 1 and   *)
(* std::exp gives the integer back.                                        *)
(***************************************************************************)
EXTENDS Integers, Sequences, FiniteSets, TLC

\* ------------------------------------------------------------------------
\* Bounds of the model
MaxLen == 3

Values == {-2, 0, 3}

\* Longest dataset of the planning-only specification
MaxPlanLen == 33

\* ------------------------------------------------------------------------
\* Program constants
Ceiling == 16

MaxSplitsMain == 32

MaxSplitsQt == 5

MaxPoolThreads == 32

IntBits == 32

DataSize == 100

RUNS == 5

\* ------------------------------------------------------------------------
\* Inputs
DivideConquerMain == "main.cc:divideAndConquer"

DivideConquerQt == "part_000:divideAndConquer"

ThreadPool == "part_000:threadPool"

Executors == {DivideConquerMain, DivideConquerQt, ThreadPool}

Datasets == UNION { [1..n -> Values] : n \in 0..MaxLen }

MainSplits == {-1, 0, 1, 2, 5, MaxSplitsMain - 1, MaxSplitsMain, MaxSplitsMain + 1}

QtSplits == -1..(MaxSplitsQt + 1)

PoolThreads == {0, 1, 2, 3, 4, MaxPoolThreads, MaxPoolThreads + 1}

Params(e) ==
  IF e = DivideConquerMain THEN MainSplits
  ELSE IF e = DivideConquerQt THEN QtSplits
  ELSE PoolThreads

\* Inputs of the planning-only specification: every parameter from one below
\* to one above the accepted range, datasets of every length up to MaxPlanLen
PlanParams(e) ==
  IF e = DivideConquerMain THEN -1..(MaxSplitsMain + 1)
  ELSE IF e = DivideConquerQt THEN -1..(MaxSplitsQt + 1)
  ELSE 0..(MaxPoolThreads + 1)

PlanDatasets == { [k \in 1..n |-> 1] : n \in 0..MaxPlanLen }

\* Inputs of the benchmark program: datasets of the size main allocates, and
\* parameters main accepts that need at most two threads
HarnessSplits == {0, 1}

HarnessThreads == {1, 2}

HarnessParams(e) == IF e = ThreadPool THEN HarnessThreads ELSE HarnessSplits

HarnessDatasets ==
  { [k \in 1..DataSize |->
       IF k % 10 = 0 THEN 2 ELSE IF k % 7 = 0 THEN -1 ELSE 1],
    [k \in 1..DataSize |->
       IF k = 37 THEN 0 ELSE IF k % 10 = 0 THEN -2
       ELSE IF k % 3 = 0 THEN -1 ELSE 1] }

Metrics(m, sd, s) == [mode |-> m, stddev |-> sd, sum |-> s]

CallerDefaults == {Metrics(<<0, 1>>, <<0, 1>>, 0), Metrics(<<7, 1>>, <<7, 1>>, 7)}

\* ------------------------------------------------------------------------
\* Arithmetic of the C++ code
Abs(x) == IF x < 0 THEN -x ELSE x

Min(a, b) == IF b < a THEN b ELSE a

RECURSIVE Pow2(_)
Pow2(n) == IF n = 0 THEN 1 ELSE 2 * Pow2(n - 1)

\* int / int with a non-zero divisor: the quotient truncates towards zero.
\* A dividend smaller in magnitude than a negative divisor gives 0 (the
\* divisor may be INT_MIN, which has no negation).
CDiv(a, b) ==
  IF a >= 0 /\ b > 0 THEN a \div b
  ELSE IF a >= 0 THEN (IF a + b < 0 THEN 0 ELSE -(a \div (-b)))
  ELSE IF b > 0 THEN -((-a) \div b)
  ELSE (-a) \div (-b)

\* size / parts.  Division by zero is undefined: the process traps (SIGFPE)
\* or, on hardware whose divide instruction does not trap, the quotient is 0.
IntDiv(a, b) ==
  IF b = 0 THEN {[trap |-> TRUE, q |-> 0], [trap |-> FALSE, q |-> 0]}
  ELSE {[trap |-> FALSE, q |-> CDiv(a, b)]}

\* 1 << splits in a 32-bit int.  A count of 31 gives INT_MIN; a count equal
\* to the width is undefined: the hardware masks the count (1) or shifts the
\* bit out (0).
ShiftLeftOne(splits) ==
  IF splits < IntBits - 1 THEN {Pow2(splits)}
  ELSE IF splits = IntBits - 1 THEN {(-Pow2(IntBits - 2)) * 2}
  ELSE {0, 1}

LogNil == 1

LogOfAbs(val) == Abs(val)

LogPlus(a, b) == a * b

Exp(l) == l

\* ------------------------------------------------------------------------
\* Validation of the concurrency parameter
RejectsMain(splits) == splits < 0 \/ splits > MaxSplitsMain

RejectsQt(splits) == splits < 0 \/ splits > MaxSplitsQt

\* Mutant: the lower bound is off by one and lets 0 workers through
RejectsPoolBelowZero(num_threads) ==
  num_threads < 0 \/ num_threads > MaxPoolThreads

RejectsPool(num_threads) == num_threads < 1 \/ num_threads > MaxPoolThreads

Rejects(e, p) ==
  IF e = DivideConquerMain THEN RejectsMain(p)
  ELSE IF e = DivideConquerQt THEN RejectsQt(p)
  ELSE RejectsPool(p)

\* ------------------------------------------------------------------------
\* Partition planning
PlanOf(p, c) == [crash |-> FALSE, parts |-> p, chunk_size |-> c]

Crashed == [crash |-> TRUE, parts |-> 0, chunk_size |-> 0]

RequestedParts(splits) == IF splits = 0 THEN {1} ELSE ShiftLeftOne(splits)

\* A plan together with parts and chunk_size as first computed, before the
\* clamp overwrites them
WithRequested(pl, p, q) == pl @@ [requested |-> [parts |-> p, chunk_size |-> q]]

\* Mutant: the clamp takes the ceiling without comparing it to size
PlanMainNoMin(size, splits) ==
  UNION { { WithRequested(
              IF d.trap THEN Crashed
              ELSE IF d.q = 0 \/ p > Ceiling
                   THEN PlanOf(Ceiling, CDiv(size, Ceiling))
                   ELSE PlanOf(p, d.q), p, d.q)
            : d \in IntDiv(size, p) }
          : p \in RequestedParts(splits) }

\* src/main.cc: clamps when the chunk is empty or when parts exceed 16
PlanMain(size, splits) ==
  UNION { { WithRequested(
              IF d.trap THEN Crashed
              ELSE IF d.q = 0 \/ p > Ceiling
                   THEN PlanOf(Min(size, Ceiling), CDiv(size, Min(size, Ceiling)))
                   ELSE PlanOf(p, d.q), p, d.q)
            : d \in IntDiv(size, p) }
          : p \in RequestedParts(splits) }

\* Mutant: an empty chunk is not clamped
PlanQtNoClamp(size, splits) ==
  UNION { { WithRequested(IF d.trap THEN Crashed ELSE PlanOf(p, d.q), p, d.q)
            : d \in IntDiv(size, p) }
          : p \in RequestedParts(splits) }

\* part_000 divideAndConquer: clamps only when the chunk is empty
PlanQt(size, splits) ==
  UNION { { WithRequested(
              IF d.trap THEN Crashed
              ELSE IF d.q = 0 THEN PlanOf(size, 1) ELSE PlanOf(p, d.q), p, d.q)
            : d \in IntDiv(size, p) }
          : p \in RequestedParts(splits) }

\* Mutant: the clamp sets num_threads but leaves chunk_size at 0
PlanPoolKeepsChunk(size, num_threads) ==
  { WithRequested(
      IF d.trap THEN Crashed
      ELSE IF d.q = 0 THEN PlanOf(size, d.q) ELSE PlanOf(num_threads, d.q),
      num_threads, d.q)
    : d \in IntDiv(size, num_threads) }

\* part_000 threadPool: one partition per requested worker, clamped to size
PlanPool(size, num_threads) ==
  { WithRequested(
      IF d.trap THEN Crashed
      ELSE IF d.q = 0 THEN PlanOf(size, 1) ELSE PlanOf(num_threads, d.q),
      num_threads, d.q)
    : d \in IntDiv(size, num_threads) }

Plan(e, size, p) ==
  IF e = DivideConquerMain THEN PlanMain(size, p)
  ELSE IF e = DivideConquerQt THEN PlanQt(size, p)
  ELSE PlanPool(size, p)

RangeStart(k, chunk) == k * chunk

\* Mutant: the last partition does not absorb the remainder
RangeEndNoRemainder(k, nparts, chunk, size) == RangeStart(k, chunk) + chunk

RangeEnd(k, nparts, chunk, size) ==
  IF k = nparts - 1 THEN size ELSE RangeStart(k, chunk) + chunk

\* ------------------------------------------------------------------------
\* State
VARIABLES
  exe,                \* which executor is called
  data,               \* the dataset, read-only
  param,              \* splits (divideAndConquer) or num_threads (threadPool)
  caller,             \* the caller's mode, stddev, sum before the call
  out,                \* the caller's mode, stddev, sum (reference parameters)
  err,                \* a validation error was written to std::cerr
  pc,                 \* position of the executor (the calling thread)
  parts,              \* parts (divideAndConquer) or num_threads after clamping
  chunk_size,
  i,                  \* index of the planning loop
  tasks,              \* std::vector<StatsTask>, with each task's thread state
  threads,            \* std::vector<std::thread>: the task each one runs
  joined,             \* how many threads the join loop has joined
  global_log_sum,
  global_sum,
  global_diff_sum,
  has_zero,
  global_count,
  mutex,              \* 0 when free, else the task holding it
  queue,              \* QThreadPool: runnables waiting for a thread
  activeThreadCount,  \* QThreadPool: threads running a runnable
  maxThreadCount,     \* QThreadPool: setMaxThreadCount
  requested,          \* parts and chunk_size as first computed, before the clamp
  run,                \* main: executor calls completed
  history,            \* main: metrics and totals at the end of each call
  report              \* main: the "Hilos" line and the CSV count field

inputVars == <<exe, data, param, caller>>

globalVars == <<global_log_sum, global_sum, global_diff_sum, has_zero, global_count>>

planVars == <<parts, chunk_size, requested>>

harnessVars == <<run, history, report>>

poolVars == <<queue, activeThreadCount, maxThreadCount>>

vars == <<exe, data, param, caller, out, err, pc, parts, chunk_size, i, tasks,
          threads, joined, global_log_sum, global_sum, global_diff_sum,
          has_zero, global_count, mutex, queue, activeThreadCount,
          maxThreadCount, requested, run, history, report>>

size == Len(data)

\* A StatsTask over [start, end) together with the thread state of its
\* computeMetrics call: position, loop index and local accumulator.  runs and
\* merges count the calls begun and the merges made.
StatsTask(s, e, where) ==
  [start |-> s, end |-> e, pc |-> where, i |-> s,
   local_log_sum |-> LogNil, local_sum |-> 0, local_diff_sum |-> 0,
   local_has_zero |-> FALSE, local_count |-> 0, runs |-> 0, merges |-> 0]

TaskIds == 1..Len(tasks)

NothingRequested == [parts |-> 0, chunk_size |-> 0]

NoReport == [hilos |-> 0, csv |-> 0, written |-> FALSE]

InitWith(datasets, parameters) ==
  /\ exe \in Executors
  /\ data \in datasets
  /\ param \in parameters[exe]
  /\ caller \in CallerDefaults
  /\ out = caller
  /\ err = FALSE
  /\ pc = "call"
  /\ parts = 0
  /\ chunk_size = 0
  /\ i = 0
  /\ tasks = <<>>
  /\ threads = <<>>
  /\ joined = 0
  /\ global_log_sum = LogNil
  /\ global_sum = 0
  /\ global_diff_sum = 0
  /\ has_zero = FALSE
  /\ global_count = 0
  /\ mutex = 0
  /\ queue = <<>>
  /\ activeThreadCount = 0
  /\ maxThreadCount = 0
  /\ requested = NothingRequested
  /\ run = 0
  /\ history = <<>>
  /\ report = NoReport

Init == InitWith(Datasets, [e \in Executors |-> Params(e)])

\* ------------------------------------------------------------------------
\* The executor: entry checks and planning

\* Mutant: the empty-dataset return forgets to zero sum
ReturnEmptyKeepsSum ==
  /\ pc = "call"
  /\ data = <<>>
  /\ out' = Metrics(<<0, 1>>, <<0, 1>>, out.sum)
  /\ pc' = "return"
  /\ UNCHANGED harnessVars
  /\ UNCHANGED <<inputVars, err, planVars, i, tasks, threads, joined,
                 globalVars, mutex, poolVars>>

\* if (data.empty()) { mode = 0; stddev = 0; sum = 0; return; }
ReturnEmpty ==
  /\ pc = "call"
  /\ data = <<>>
  /\ out' = Metrics(<<0, 1>>, <<0, 1>>, 0)
  /\ pc' = "return"
  /\ UNCHANGED harnessVars
  /\ UNCHANGED <<inputVars, err, planVars, i, tasks, threads, joined,
                 globalVars, mutex, poolVars>>

\* Mutant: a rejected parameter zeroes the outputs as the empty dataset does
RejectParamZeroes ==
  /\ pc = "call"
  /\ data # <<>>
  /\ Rejects(exe, param)
  /\ err' = TRUE
  /\ out' = Metrics(<<0, 1>>, <<0, 1>>, 0)
  /\ pc' = "return"
  /\ UNCHANGED harnessVars
  /\ UNCHANGED <<inputVars, planVars, i, tasks, threads, joined,
                 globalVars, mutex, poolVars>>

\* if (out of range) { std::cerr << "Error: ..."; return; }
RejectParam ==
  /\ pc = "call"
  /\ data # <<>>
  /\ Rejects(exe, param)
  /\ err' = TRUE
  /\ pc' = "return"
  /\ UNCHANGED harnessVars
  /\ UNCHANGED <<inputVars, out, planVars, i, tasks, threads, joined,
                 globalVars, mutex, poolVars>>

\* Mutant: setMaxThreadCount is called after the clamp, with the clamped count
PlanPartitionsMaxAfterClamp ==
  /\ pc = "call"
  /\ data # <<>>
  /\ ~Rejects(exe, param)
  /\ global_log_sum' = LogNil
  /\ global_sum' = 0
  /\ global_diff_sum' = 0
  /\ has_zero' = FALSE
  /\ global_count' = 0
  /\ \E pl \in Plan(exe, size, param) :
       /\ parts' = pl.parts
       /\ chunk_size' = pl.chunk_size
       /\ requested' = pl.requested
       /\ maxThreadCount' = IF exe = ThreadPool THEN pl.parts ELSE maxThreadCount
       /\ pc' = IF pl.crash THEN "crash" ELSE "loop"
  /\ i' = 0
  /\ UNCHANGED harnessVars
  /\ UNCHANGED <<inputVars, out, err, tasks, threads, joined, mutex, queue,
                 activeThreadCount>>

\* Mutant: the globals are not initialised at the start of a call
PlanPartitionsKeepsGlobals ==
  /\ pc = "call"
  /\ data # <<>>
  /\ ~Rejects(exe, param)
  /\ maxThreadCount' = IF exe = ThreadPool THEN param ELSE maxThreadCount
  /\ \E pl \in Plan(exe, size, param) :
       /\ parts' = pl.parts
       /\ chunk_size' = pl.chunk_size
       /\ requested' = pl.requested
       /\ pc' = IF pl.crash THEN "crash" ELSE "loop"
  /\ i' = 0
  /\ UNCHANGED harnessVars
  /\ UNCHANGED <<inputVars, out, err, tasks, threads, joined, mutex, queue,
                 activeThreadCount, globalVars>>

\* The globals are initialised, the pool (threadPool) is created with
\* setMaxThreadCount(num_threads), parts and chunk_size are computed.
PlanPartitions ==
  /\ pc = "call"
  /\ data # <<>>
  /\ ~Rejects(exe, param)
  /\ global_log_sum' = LogNil
  /\ global_sum' = 0
  /\ global_diff_sum' = 0
  /\ has_zero' = FALSE
  /\ global_count' = 0
  /\ maxThreadCount' = IF exe = ThreadPool THEN param ELSE maxThreadCount
  /\ \E pl \in Plan(exe, size, param) :
       /\ parts' = pl.parts
       /\ chunk_size' = pl.chunk_size
       /\ requested' = pl.requested
       /\ pc' = IF pl.crash THEN "crash" ELSE "loop"
  /\ i' = 0
  /\ UNCHANGED harnessVars
  /\ UNCHANGED <<inputVars, out, err, tasks, threads, joined, mutex, queue,
                 activeThreadCount>>

\* ------------------------------------------------------------------------
\* The executor: one iteration of the loop that creates the tasks

\* Mutant: the first task runs on the calling thread whatever parts is
SpawnOrRunFirstSync ==
  /\ pc = "loop"
  /\ exe # ThreadPool
  /\ i < parts
  /\ tasks' = Append(tasks, StatsTask(RangeStart(i, chunk_size),
                                      RangeEnd(i, parts, chunk_size, size),
                                      "new"))
  /\ IF i = 0
       THEN pc' = "sync" /\ threads' = threads
       ELSE pc' = pc /\ threads' = Append(threads, Len(tasks) + 1)
  /\ i' = i + 1
  /\ UNCHANGED harnessVars
  /\ UNCHANGED <<inputVars, out, err, planVars, joined, globalVars, mutex,
                 poolVars>>

\* divideAndConquer: emplace the task; run it on the calling thread when
\* parts == 1, else start a std::thread on it.
SpawnOrRun ==
  /\ pc = "loop"
  /\ exe # ThreadPool
  /\ i < parts
  /\ tasks' = Append(tasks, StatsTask(RangeStart(i, chunk_size),
                                      RangeEnd(i, parts, chunk_size, size),
                                      "new"))
  /\ IF parts = 1
       THEN pc' = "sync" /\ threads' = threads
       ELSE pc' = pc /\ threads' = Append(threads, Len(tasks) + 1)
  /\ i' = i + 1
  /\ UNCHANGED harnessVars
  /\ UNCHANGED <<inputVars, out, err, planVars, joined, globalVars, mutex,
                 poolVars>>

\* tasks.back().computeMetrics() has returned to the calling thread
SyncReturn ==
  /\ pc = "sync"
  /\ tasks[Len(tasks)].pc = "done"
  /\ pc' = "loop"
  /\ UNCHANGED harnessVars
  /\ UNCHANGED <<inputVars, out, err, planVars, i, tasks, threads, joined,
                 globalVars, mutex, poolVars>>

\* threadPool: emplace the task; pool.start(new StatsRunnable(tasks[i])) hands
\* it to a thread when fewer than maxThreadCount are active, else queues it.
PoolStart ==
  /\ pc = "loop"
  /\ exe = ThreadPool
  /\ i < parts
  /\ IF activeThreadCount < maxThreadCount
       THEN /\ tasks' = Append(tasks, StatsTask(RangeStart(i, chunk_size),
                                   RangeEnd(i, parts, chunk_size, size), "new"))
            /\ activeThreadCount' = activeThreadCount + 1
            /\ queue' = queue
       ELSE /\ tasks' = Append(tasks, StatsTask(RangeStart(i, chunk_size),
                                   RangeEnd(i, parts, chunk_size, size), "queued"))
            /\ activeThreadCount' = activeThreadCount
            /\ queue' = Append(queue, Len(tasks) + 1)
  /\ i' = i + 1
  /\ UNCHANGED harnessVars
  /\ UNCHANGED <<inputVars, out, err, pc, planVars, threads, joined,
                 globalVars, mutex, maxThreadCount>>

\* i < parts is false: the loop ends
LoopExit ==
  /\ pc = "loop"
  /\ ~(i < parts)
  /\ pc' = IF exe = ThreadPool THEN "wait" ELSE "join"
  /\ UNCHANGED harnessVars
  /\ UNCHANGED <<inputVars, out, err, planVars, i, tasks, threads, joined,
                 globalVars, mutex, poolVars>>

\* ------------------------------------------------------------------------
\* StatsTask::computeMetrics, run by thread t

\* The thread enters computeMetrics: the local accumulator is zeroed
Begin(t) ==
  /\ tasks[t].pc = "new"
  /\ tasks' = [tasks EXCEPT ![t].pc = "loop", ![t].i = tasks[t].start,
                            ![t].local_log_sum = LogNil, ![t].local_sum = 0,
                            ![t].local_diff_sum = 0,
                            ![t].local_has_zero = FALSE,
                            ![t].local_count = 0,
                            ![t].runs = tasks[t].runs + 1]
  /\ UNCHANGED harnessVars
  /\ UNCHANGED <<inputVars, out, err, pc, planVars, i, threads, joined,
                 globalVars, mutex, poolVars>>

\* Mutant: the difference is taken against the index within the partition
ScanLocalIndex(t) ==
  /\ tasks[t].pc = "loop"
  /\ tasks[t].i < tasks[t].end
  /\ LET k == tasks[t].i
         val == data[k + 1]
     IN tasks' = [tasks EXCEPT
          ![t].local_has_zero = IF val = 0 THEN TRUE ELSE tasks[t].local_has_zero,
          ![t].local_log_sum = IF val = 0 THEN tasks[t].local_log_sum
                               ELSE LogPlus(tasks[t].local_log_sum, LogOfAbs(val)),
          ![t].local_sum = tasks[t].local_sum + val,
          ![t].local_diff_sum = tasks[t].local_diff_sum + (val - (k - tasks[t].start)),
          ![t].local_count = tasks[t].local_count + 1,
          ![t].i = k + 1]
  /\ UNCHANGED harnessVars
  /\ UNCHANGED <<inputVars, out, err, pc, planVars, i, threads, joined,
                 globalVars, mutex, poolVars>>

\* One iteration of for (int i = start; i < end; ++i); data[i] is data[i + 1]
\* of the 1-based sequence.
Scan(t) ==
  /\ tasks[t].pc = "loop"
  /\ tasks[t].i < tasks[t].end
  /\ LET k == tasks[t].i
         val == data[k + 1]
     IN tasks' = [tasks EXCEPT
          ![t].local_has_zero = IF val = 0 THEN TRUE ELSE tasks[t].local_has_zero,
          ![t].local_log_sum = IF val = 0 THEN tasks[t].local_log_sum
                               ELSE LogPlus(tasks[t].local_log_sum, LogOfAbs(val)),
          ![t].local_sum = tasks[t].local_sum + val,
          ![t].local_diff_sum = tasks[t].local_diff_sum + (val - k),
          ![t].local_count = tasks[t].local_count + 1,
          ![t].i = k + 1]
  /\ UNCHANGED harnessVars
  /\ UNCHANGED <<inputVars, out, err, pc, planVars, i, threads, joined,
                 globalVars, mutex, poolVars>>

\* Mutant: the lock is taken without waiting for the mutex to be free
LockNoWait(t) ==
  /\ tasks[t].pc = "loop"
  /\ ~(tasks[t].i < tasks[t].end)
  /\ mutex' = t
  /\ tasks' = [tasks EXCEPT ![t].pc = "merge"]
  /\ UNCHANGED harnessVars
  /\ UNCHANGED <<inputVars, out, err, pc, planVars, i, threads, joined,
                 globalVars, poolVars>>

\* The loop is over; std::lock_guard<std::mutex> lock(mutex) blocks until the
\* mutex is free and takes it.
Lock(t) ==
  /\ tasks[t].pc = "loop"
  /\ ~(tasks[t].i < tasks[t].end)
  /\ mutex = 0
  /\ mutex' = t
  /\ tasks' = [tasks EXCEPT ![t].pc = "merge"]
  /\ UNCHANGED harnessVars
  /\ UNCHANGED <<inputVars, out, err, pc, planVars, i, threads, joined,
                 globalVars, poolVars>>

\* Mutant: global_count = local_count instead of +=
MergeAssignsCount(t) ==
  /\ tasks[t].pc = "merge"
  /\ global_log_sum' = LogPlus(global_log_sum, tasks[t].local_log_sum)
  /\ global_sum' = global_sum + tasks[t].local_sum
  /\ global_diff_sum' = global_diff_sum + tasks[t].local_diff_sum
  /\ has_zero' = (has_zero \/ tasks[t].local_has_zero)
  /\ global_count' = tasks[t].local_count
  /\ mutex' = IF mutex = t THEN 0 ELSE mutex
  /\ tasks' = [tasks EXCEPT ![t].pc = IF exe = ThreadPool THEN "ran" ELSE "done",
                            ![t].merges = tasks[t].merges + 1]
  /\ UNCHANGED harnessVars
  /\ UNCHANGED <<inputVars, out, err, pc, planVars, i, threads, joined,
                 poolVars>>

\* Mutant: has_zero = local_has_zero instead of has_zero || local_has_zero
MergeAssignsZeroFlag(t) ==
  /\ tasks[t].pc = "merge"
  /\ global_log_sum' = LogPlus(global_log_sum, tasks[t].local_log_sum)
  /\ global_sum' = global_sum + tasks[t].local_sum
  /\ global_diff_sum' = global_diff_sum + tasks[t].local_diff_sum
  /\ has_zero' = tasks[t].local_has_zero
  /\ global_count' = global_count + tasks[t].local_count
  /\ mutex' = IF mutex = t THEN 0 ELSE mutex
  /\ tasks' = [tasks EXCEPT ![t].pc = IF exe = ThreadPool THEN "ran" ELSE "done",
                            ![t].merges = tasks[t].merges + 1]
  /\ UNCHANGED harnessVars
  /\ UNCHANGED <<inputVars, out, err, pc, planVars, i, threads, joined,
                 poolVars>>

\* The five updates of the globals, then the lock_guard releases the mutex
\* and computeMetrics returns.
Merge(t) ==
  /\ tasks[t].pc = "merge"
  /\ global_log_sum' = LogPlus(global_log_sum, tasks[t].local_log_sum)
  /\ global_sum' = global_sum + tasks[t].local_sum
  /\ global_diff_sum' = global_diff_sum + tasks[t].local_diff_sum
  /\ has_zero' = (has_zero \/ tasks[t].local_has_zero)
  /\ global_count' = global_count + tasks[t].local_count
  /\ mutex' = IF mutex = t THEN 0 ELSE mutex
  /\ tasks' = [tasks EXCEPT ![t].pc = IF exe = ThreadPool THEN "ran" ELSE "done",
                            ![t].merges = tasks[t].merges + 1]
  /\ UNCHANGED harnessVars
  /\ UNCHANGED <<inputVars, out, err, pc, planVars, i, threads, joined,
                 poolVars>>

\* StatsRunnable::run has returned: the pool deletes the runnable and its
\* thread takes the next queued runnable, or stops being active.
RunnableDone(t) ==
  /\ tasks[t].pc = "ran"
  /\ IF queue # <<>>
       THEN /\ tasks' = [tasks EXCEPT ![t].pc = "done", ![Head(queue)].pc = "new"]
            /\ queue' = Tail(queue)
            /\ activeThreadCount' = activeThreadCount
       ELSE /\ tasks' = [tasks EXCEPT ![t].pc = "done"]
            /\ queue' = queue
            /\ activeThreadCount' = activeThreadCount - 1
  /\ UNCHANGED harnessVars
  /\ UNCHANGED <<inputVars, out, err, pc, planVars, i, threads, joined,
                 globalVars, mutex, maxThreadCount>>

\* ------------------------------------------------------------------------
\* The executor: barrier and final metrics

\* Mutant: join returns without waiting for the thread to finish
JoinNoWait ==
  /\ pc = "join"
  /\ joined < Len(threads)
  /\ joined' = joined + 1
  /\ UNCHANGED harnessVars
  /\ UNCHANGED <<inputVars, out, err, pc, planVars, i, tasks, threads,
                 globalVars, mutex, poolVars>>

\* t.join() of the next thread returns once its computeMetrics has returned
Join ==
  /\ pc = "join"
  /\ joined < Len(threads)
  /\ tasks[threads[joined + 1]].pc = "done"
  /\ joined' = joined + 1
  /\ UNCHANGED harnessVars
  /\ UNCHANGED <<inputVars, out, err, pc, planVars, i, tasks, threads,
                 globalVars, mutex, poolVars>>

\* Mutant: the drain wait looks at the queue only, not at the active threads
WaitForQueueOnly ==
  /\ pc = "wait"
  /\ queue = <<>>
  /\ pc' = "read"
  /\ UNCHANGED harnessVars
  /\ UNCHANGED <<inputVars, out, err, planVars, i, tasks, threads, joined,
                 globalVars, mutex, poolVars>>

\* pool.waitForDone() returns when no runnable is queued and no thread active
WaitForDone ==
  /\ pc = "wait"
  /\ queue = <<>>
  /\ activeThreadCount = 0
  /\ pc' = "read"
  /\ UNCHANGED harnessVars
  /\ UNCHANGED <<inputVars, out, err, planVars, i, tasks, threads, joined,
                 globalVars, mutex, poolVars>>

\* Mutant: the globals are read without the join loop having finished
ReadGlobalsEarly ==
  /\ \/ pc = "read"
     \/ pc = "join"
  /\ out' = Metrics(IF global_count > 0 THEN <<global_diff_sum, global_count>>
                                         ELSE <<0, 1>>,
                    <<global_sum, 2>>,
                    IF has_zero THEN 0 ELSE Exp(global_log_sum))
  /\ pc' = "return"
  /\ UNCHANGED harnessVars
  /\ UNCHANGED <<inputVars, err, planVars, i, tasks, threads, joined,
                 globalVars, mutex, poolVars>>

\* mode, stddev and sum are computed from the globals; the executor returns
ReadGlobals ==
  /\ \/ pc = "read"
     \/ pc = "join" /\ joined = Len(threads)
  /\ out' = Metrics(IF global_count > 0 THEN <<global_diff_sum, global_count>>
                                         ELSE <<0, 1>>,
                    <<global_sum, 2>>,
                    IF has_zero THEN 0 ELSE Exp(global_log_sum))
  /\ pc' = "return"
  /\ UNCHANGED harnessVars
  /\ UNCHANGED <<inputVars, err, planVars, i, tasks, threads, joined,
                 globalVars, mutex, poolVars>>

Next ==
  \/ ReturnEmpty
  \/ RejectParam
  \/ PlanPartitions
  \/ SpawnOrRun
  \/ SyncReturn
  \/ PoolStart
  \/ LoopExit
  \/ \E t \in TaskIds : Begin(t)
  \/ \E t \in TaskIds : Scan(t)
  \/ \E t \in TaskIds : Lock(t)
  \/ \E t \in TaskIds : Merge(t)
  \/ \E t \in TaskIds : RunnableDone(t)
  \/ Join
  \/ WaitForDone
  \/ ReadGlobals

Spec == Init /\ [][Next]_vars

\* The calling thread and every task thread are scheduled by the operating
\* system: a thread that can take a step is not delayed for ever.
ExecutorStep ==
  \/ ReturnEmpty
  \/ RejectParam
  \/ PlanPartitions
  \/ SpawnOrRun
  \/ SyncReturn
  \/ PoolStart
  \/ LoopExit
  \/ Join
  \/ WaitForDone
  \/ ReadGlobals

TaskStep(t) ==
  /\ t \in TaskIds
  /\ Begin(t) \/ Scan(t) \/ Lock(t) \/ Merge(t) \/ RunnableDone(t)

FairSpec ==
  /\ Spec
  /\ WF_vars(ExecutorStep)
  /\ \A t \in 1..MaxLen : WF_vars(TaskStep(t))

\* ------------------------------------------------------------------------
\* Planning only: the executor runs its entry checks and its planning loop on
\* datasets long enough for every clamp to matter, while the spawned threads
\* and the pool's runnables are not yet scheduled.  Only the task that
\* divideAndConquer runs on the calling thread (parts == 1) makes steps.
PlanInit == InitWith(PlanDatasets, [e \in Executors |-> PlanParams(e)])

SyncStep ==
  /\ pc = "sync"
  /\ \E t \in TaskIds : Begin(t) \/ Scan(t) \/ Lock(t) \/ Merge(t)

PlanNext ==
  \/ ReturnEmpty
  \/ RejectParam
  \/ PlanPartitions
  \/ SpawnOrRun
  \/ SyncStep
  \/ SyncReturn
  \/ PoolStart
  \/ LoopExit
  \/ ReadGlobals

PlanSpec == PlanInit /\ [][PlanNext]_vars

\* ------------------------------------------------------------------------
\* The benchmark program (main): RUNS calls of the executor on the same
\* dataset and parameter, then the report.  main has validated the parameter
\* and filled the dataset before the first call; mode, stddev and sum start
\* at 0.
HarnessInit ==
  /\ InitWith(HarnessDatasets, [e \in Executors |-> HarnessParams(e)])
  /\ caller = Metrics(<<0, 1>>, <<0, 1>>, 0)

\* What a call left behind: the outputs and the totals they were read from
Totals ==
  [out |-> out, count |-> global_count, sum |-> global_sum,
   diff_sum |-> global_diff_sum, has_zero |-> has_zero]

\* The executor has returned and the timing loop calls it again: the locals
\* of the finished call are gone, the outputs keep their values
NextRun ==
  /\ pc = "return"
  /\ run + 1 < RUNS
  /\ run' = run + 1
  /\ history' = Append(history, Totals)
  /\ caller' = out
  /\ pc' = "call"
  /\ parts' = 0
  /\ chunk_size' = 0
  /\ requested' = NothingRequested
  /\ i' = 0
  /\ tasks' = <<>>
  /\ threads' = <<>>
  /\ joined' = 0
  /\ queue' = <<>>
  /\ activeThreadCount' = 0
  /\ maxThreadCount' = 0
  /\ UNCHANGED <<exe, data, param, out, err, globalVars, mutex, report>>

\* The count main prints as "Hilos" and the count it writes to results.csv.
\* src/main.cc prints d_val and writes (d_val == 0) ? 1 : (1 << d_val);
\* part_000 prints and writes num_threads, which is that expression for -d
\* and p_val for -p.  The row is written only if results.csv could be opened.
ReportedCounts(e, p) ==
  IF e = DivideConquerMain
    THEN { [hilos |-> p, csv |-> c, written |-> w] :
             c \in RequestedParts(p), w \in BOOLEAN }
  ELSE IF e = DivideConquerQt
    THEN { [hilos |-> c, csv |-> c, written |-> w] :
             c \in RequestedParts(p), w \in BOOLEAN }
  ELSE { [hilos |-> p, csv |-> p, written |-> w] : w \in BOOLEAN }

\* The last call has returned: main prints the report and appends the CSV row
Report ==
  /\ pc = "return"
  /\ run + 1 = RUNS
  /\ run' = run + 1
  /\ history' = Append(history, Totals)
  /\ report' \in ReportedCounts(exe, param)
  /\ pc' = "exit"
  /\ UNCHANGED <<inputVars, out, err, planVars, i, tasks, threads, joined,
                 globalVars, mutex, poolVars>>

HarnessNext ==
  \/ PlanPartitions
  \/ SpawnOrRun
  \/ SyncReturn
  \/ PoolStart
  \/ LoopExit
  \/ \E t \in TaskIds : Begin(t)
  \/ \E t \in TaskIds : Scan(t)
  \/ \E t \in TaskIds : Lock(t)
  \/ \E t \in TaskIds : Merge(t)
  \/ \E t \in TaskIds : RunnableDone(t)
  \/ Join
  \/ WaitForDone
  \/ ReadGlobals
  \/ NextRun
  \/ Report

HarnessSpec == HarnessInit /\ [][HarnessNext]_vars

\* ------------------------------------------------------------------------
\* Vocabulary of the properties

\* The documented ranges of the concurrency parameter
OutOfRange ==
  \/ exe = DivideConquerMain /\ (param < 0 \/ param > 32)
  \/ exe = DivideConquerQt /\ (param < 0 \/ param > 5)
  \/ exe = ThreadPool /\ (param < 1 \/ param > 32)

\* The loop that plans the partitions has ended
Planned == pc \in {"join", "wait", "read", "return"} /\ data # <<>> /\ ~err

\* The executor has computed the final metrics from the globals
Computed == pc = "return" /\ data # <<>> /\ ~err

RECURSIVE SumLengths(_)
SumLengths(ts) ==
  IF ts = <<>> THEN 0
  ELSE SumLengths(SubSeq(ts, 1, Len(ts) - 1)) + (ts[Len(ts)].end - ts[Len(ts)].start)

\* Single pass over the whole dataset: sum of v_i and of v_i - i (i from 0)
RECURSIVE SumValues(_)
SumValues(d) ==
  IF d = <<>> THEN 0 ELSE SumValues(SubSeq(d, 1, Len(d) - 1)) + d[Len(d)]

RECURSIVE SumDiffs(_)
SumDiffs(d) ==
  IF d = <<>> THEN 0
  ELSE SumDiffs(SubSeq(d, 1, Len(d) - 1)) + (d[Len(d)] - (Len(d) - 1))

HasZeroElement == \E k \in 1..Len(data) : data[k] = 0

\* ------------------------------------------------------------------------
\* C1: the ranges the executor gives its tasks are contiguous and do not
\* overlap (the first starts at 0, each next starts where the previous ended,
\* no range ends before it starts) and, once the planning loop has ended,
\* exhaustive (at least one range, the last ends at N, the lengths sum to N).
C1_PartitionsCoverDataset ==
  /\ \A k \in TaskIds :
       /\ tasks[k].start <= tasks[k].end
       /\ k = 1 => tasks[k].start = 0
       /\ k > 1 => tasks[k].start = tasks[k - 1].end
  /\ Planned =>
       /\ tasks # <<>>
       /\ Len(tasks) = parts
       /\ tasks[Len(tasks)].end = size
       /\ SumLengths(tasks) = size

\* src/main.cc asked for 32 parts of a dataset longer than 16: the ceiling
\* gives 16 partitions and the last one absorbs the remainder
C1_Witness ==
  /\ Planned
  /\ exe = DivideConquerMain
  /\ param = 5
  /\ size > Ceiling
  /\ Len(tasks) = Ceiling
  /\ tasks[Len(tasks)].end - tasks[Len(tasks)].start > chunk_size

\* C2: when the executor has computed the metrics, whatever the interleaving
\* of the tasks was, global_count equals the dataset length N.
C2_CountEqualsLength == Computed => global_count = size

C2_Witness ==
  /\ Computed
  /\ exe = ThreadPool
  /\ Len(tasks) >= 2
  /\ global_count = size

\* C3: when the executor has computed the metrics, global_sum is the
\* single-pass sum of the values, global_diff_sum the single-pass sum of
\* v_i - i, mode is diffSum / N and stddev is sum / 2: functions of the dataset
\* alone, not of the partition count or of the merge order.
C3_SumsEqualSinglePass ==
  Computed =>
    /\ global_sum = SumValues(data)
    /\ global_diff_sum = SumDiffs(data)
    /\ out.mode = <<SumDiffs(data), size>>
    /\ out.stddev = <<SumValues(data), 2>>

C3_Witness ==
  /\ Computed
  /\ Len(tasks) >= 2
  /\ tasks[2].local_diff_sum # 0
  /\ global_diff_sum = SumDiffs(data)
  /\ global_diff_sum # global_sum

\* C4: when the executor has computed the metrics, the zero flag is true
\* exactly when the dataset holds a zero, and then the sum metric is 0.
C4_ZeroForcesZeroProduct ==
  Computed =>
    /\ has_zero = HasZeroElement
    /\ HasZeroElement => out.sum = 0

\* A zero in the first partition only, several partitions merged after it
C4_Witness ==
  /\ Computed
  /\ Len(tasks) >= 2
  /\ tasks[1].local_has_zero
  /\ \A t \in TaskIds : t > 1 => ~tasks[t].local_has_zero
  /\ out.sum = 0

\* C5: no task merges twice, and when the executor has computed the metrics
\* there is one task per planned partition and each has merged exactly once.
C5_EachTaskMergesOnce ==
  /\ \A t \in TaskIds : tasks[t].merges <= 1
  /\ Computed =>
       /\ Len(tasks) = parts
       /\ \A t \in TaskIds : tasks[t].merges = 1

C5_Witness ==
  /\ Computed
  /\ exe # ThreadPool
  /\ Len(threads) >= 2
  /\ \A t \in TaskIds : tasks[t].merges = 1

\* C6: when pool.waitForDone() has returned, every task submitted to the pool
\* has run computeMetrics to completion exactly once: none is queued, new or
\* in flight, no pool thread is active, and one task was submitted per
\* iteration of the loop.
C6_DrainMeansAllRanOnce ==
  (exe = ThreadPool /\ pc \in {"read", "return"} /\ data # <<>> /\ ~err) =>
    /\ Len(tasks) = i
    /\ tasks # <<>>
    /\ queue = <<>>
    /\ activeThreadCount = 0
    /\ \A t \in TaskIds : tasks[t].pc = "done" /\ tasks[t].runs = 1

\* waitForDone has just returned after several runnables were started
C6_Witness ==
  /\ exe = ThreadPool
  /\ pc = "read"
  /\ Len(tasks) >= 2
  /\ \A t \in TaskIds : tasks[t].runs = 1

\* The local accumulator and loop index of task t
Locals(t) ==
  <<tasks[t].i, tasks[t].local_log_sum, tasks[t].local_sum,
    tasks[t].local_diff_sum, tasks[t].local_has_zero, tasks[t].local_count>>

InCriticalSection(t) == tasks[t].pc = "merge"

\* C7: at most one task is in the merge critical section and it holds the
\* mutex; a step that writes a global field is the merge of the task that
\* holds the mutex (or the executor initialising the globals before any task
\* exists); a step that writes a task's local accumulator is made by that
\* task outside the critical section, leaves the globals alone and leaves
\* every other task's local accumulator alone.
C7_MergeSerializedByLock ==
  /\ [](/\ \A t, u \in TaskIds :
             InCriticalSection(t) /\ InCriticalSection(u) => t = u
        /\ \A t \in TaskIds : InCriticalSection(t) => mutex = t
        /\ mutex # 0 => mutex \in TaskIds /\ InCriticalSection(mutex))
  /\ [][/\ globalVars' # globalVars =>
             \/ pc = "call" /\ tasks = <<>>
             \/ /\ mutex \in TaskIds
                /\ InCriticalSection(mutex)
                /\ tasks'[mutex].merges = tasks[mutex].merges + 1
                /\ \A u \in TaskIds \ {mutex} : tasks'[u] = tasks[u]
        /\ \A t \in TaskIds :
             Locals(t)' # Locals(t) =>
               /\ ~InCriticalSection(t)
               /\ globalVars' = globalVars
               /\ \A u \in TaskIds \ {t} : Locals(u)' = Locals(u)]_vars

\* One task is merging while another has finished its loop and waits for the
\* mutex
C7_Witness ==
  \E t, u \in TaskIds :
    /\ t # u
    /\ InCriticalSection(t)
    /\ mutex = t
    /\ tasks[u].pc = "loop"
    /\ ~(tasks[u].i < tasks[u].end)

GlobalsZero ==
  /\ global_log_sum = LogNil
  /\ global_sum = 0
  /\ global_diff_sum = 0
  /\ has_zero = FALSE
  /\ global_count = 0

AllTasksFinished ==
  /\ \A t \in TaskIds : tasks[t].pc = "done" /\ tasks[t].merges = 1
  /\ mutex = 0
  /\ joined = Len(threads)
  /\ queue = <<>>
  /\ activeThreadCount = 0

\* C8: as long as no task has begun, the globals are zero/false; and the step
\* in which the executor reads the globals into the metrics is taken only
\* when every task has merged and finished, every thread is joined and the
\* pool is drained.
C8_GlobalsReadAfterBarrier ==
  /\ []((\A t \in TaskIds : tasks[t].runs = 0) => GlobalsZero)
  /\ [][(pc # "return" /\ pc' = "return" /\ tasks # <<>>) =>
          AllTasksFinished /\ tasks # <<>>]_vars
  /\ [](Computed => AllTasksFinished /\ tasks # <<>>)

\* The metrics were read after several threads were joined
C8_Witness ==
  /\ Computed
  /\ exe = DivideConquerQt
  /\ Len(threads) >= 2
  /\ joined = Len(threads)
  /\ ~GlobalsZero

\* C9: with an out-of-range parameter the executor never plans a partition,
\* creates a task, spawns a thread or gives the pool a runnable; it only
\* returns.
C9_InvalidParamPlansNothing ==
  OutOfRange =>
    /\ pc \in {"call", "return"}
    /\ parts = 0
    /\ chunk_size = 0
    /\ tasks = <<>>
    /\ threads = <<>>
    /\ queue = <<>>
    /\ activeThreadCount = 0
    /\ maxThreadCount = 0

\* threadPool has returned from a call with 0 workers on a non-empty dataset
C9_Witness ==
  /\ OutOfRange
  /\ exe = ThreadPool
  /\ param = 0
  /\ data # <<>>
  /\ pc = "return"
  /\ err

\* C10 as stated: for every dataset, empty or not, a call with an
\* out-of-range parameter reports a validation error and leaves mode, stddev
\* and sum as they were.
C10_Original ==
  (pc = "return" /\ OutOfRange) => (err /\ out = caller)

\* C10 amended: for every non-empty dataset, a call with an out-of-range
\* parameter reports a validation error and leaves mode, stddev and sum as
\* they were.  (An empty dataset returns (0, 0, 0) without an error before
\* the parameter is looked at.)
C10_InvalidParamLeavesOutputs ==
  (pc = "return" /\ OutOfRange /\ data # <<>>) => (err /\ out = caller)

\* A rejected call whose caller had non-zero outputs
C10_Witness ==
  /\ pc = "return"
  /\ OutOfRange
  /\ data # <<>>
  /\ err
  /\ caller.sum # 0
  /\ out = caller

\* C11: with an empty dataset the executor, whatever the strategy and the
\* parameter, plans no partition, creates no task, spawns no thread, gives the
\* pool no runnable, and returns with (mode, stddev, sum) = (0, 0, 0).
C11_EmptyDatasetShortCircuits ==
  data = <<>> =>
    /\ pc \in {"call", "return"}
    /\ parts = 0
    /\ tasks = <<>>
    /\ threads = <<>>
    /\ queue = <<>>
    /\ activeThreadCount = 0
    /\ pc = "return" => out = Metrics(<<0, 1>>, <<0, 1>>, 0) /\ ~err

\* An empty dataset, an out-of-range parameter and non-zero outputs before
C11_Witness ==
  /\ data = <<>>
  /\ pc = "return"
  /\ OutOfRange
  /\ caller.sum # 0
  /\ out.sum = 0

\* parts and chunk_size have been computed and the division did not trap
PlanMade == pc \notin {"call", "crash"} /\ data # <<>> /\ ~err

\* C13 as stated: in every planner, when the requested part count P exceeds
\* N, the effective part count becomes exactly N and chunk_size 1.
C13_Original ==
  (PlanMade /\ requested.parts > size) => (parts = size /\ chunk_size = 1)

\* C13 amended: when chunkSize = N / P as first computed is 0, the planners
\* of part_000 make the effective part count exactly N and chunk_size 1,
\* while src/main.cc makes the effective part count min(N, 16) and recomputes
\* chunk_size as N / min(N, 16).
C13_ClampWhenChunkEmpty ==
  (PlanMade /\ requested.chunk_size = 0) =>
    IF exe = DivideConquerMain
      THEN /\ parts = (IF size < 16 THEN size ELSE 16)
           /\ chunk_size = size \div parts
      ELSE /\ parts = size
           /\ chunk_size = 1

\* src/main.cc was asked for more parts than a dataset longer than 16 has
\* elements
C13_Witness ==
  /\ PlanMade
  /\ exe = DivideConquerMain
  /\ requested.chunk_size = 0
  /\ requested.parts > size
  /\ size > 2 * 16
  /\ parts = 16
  /\ chunk_size = 2

\* C14: every range given to a task holds at least one element, and the
\* effective part count is between 1 and N.
C14_PartitionsNonEmpty ==
  /\ \A k \in TaskIds : tasks[k].start < tasks[k].end
  /\ PlanMade => (1 <= parts /\ parts <= size)

\* More parts requested than elements: one element per partition
C14_Witness ==
  /\ Planned
  /\ requested.parts > size
  /\ size >= 2
  /\ Len(tasks) = size
  /\ \A k \in TaskIds : tasks[k].end = tasks[k].start + 1

\* x = 2^n, computed by halving
RECURSIVE IsPow2Of(_, _)
IsPow2Of(x, n) ==
  IF n = 0 THEN x = 1
  ELSE x > 0 /\ x % 2 = 0 /\ IsPow2Of(x \div 2, n - 1)

\* C15 as stated: for every split depth the validation accepts, the requested
\* part count computed in a 32-bit int is the positive value 2^splits, and
\* the division size / parts is defined (it does not trap).
C15_Original ==
  (exe # ThreadPool /\ pc # "call" /\ data # <<>> /\ ~err) =>
    /\ requested.parts > 0
    /\ IsPow2Of(requested.parts, param)
    /\ pc # "crash"

\* The list of ranges a plan gives, and the list the tasks were given
Ranges(pl, n) ==
  [k \in 1..pl.parts |->
     <<RangeStart(k - 1, pl.chunk_size),
       RangeEnd(k - 1, pl.parts, pl.chunk_size, n)>>]

TaskRanges == [k \in TaskIds |-> <<tasks[k].start, tasks[k].end>>]

SamePlanExpected == Pow2(param) <= 16 \/ size <= 16

\* C18: for the same N >= 1 and the same split depth in 0..5, the partitions
\* planned by divideAndConquer of src/main.cc and by divideAndConquer of
\* part_000 are the same list exactly when 2^splits <= 16 or N <= 16;
\* otherwise the first plans min(N, 16) partitions and the second
\* min(N, 2^splits).
C18_CeilingEquivalence ==
  /\ (Planned /\ exe = DivideConquerMain /\ param \in 0..5) =>
       \A q \in PlanQt(size, param) :
         /\ (TaskRanges = Ranges(q, size)) <=> SamePlanExpected
         /\ ~SamePlanExpected =>
              /\ Len(tasks) = (IF size < 16 THEN size ELSE 16)
              /\ q.parts = (IF size < Pow2(param) THEN size ELSE Pow2(param))
  /\ (Planned /\ exe = DivideConquerQt /\ param \in 0..5) =>
       \A m \in PlanMain(size, param) :
         /\ (TaskRanges = Ranges(m, size)) <=> SamePlanExpected
         /\ ~SamePlanExpected =>
              /\ m.parts = (IF size < 16 THEN size ELSE 16)
              /\ Len(tasks) = (IF size < Pow2(param) THEN size ELSE Pow2(param))

\* part_000 planned 32 partitions where src/main.cc plans 16
C18_Witness ==
  /\ Planned
  /\ exe = DivideConquerQt
  /\ param = 5
  /\ size > 32
  /\ Len(tasks) = 32
  /\ \A m \in PlanMain(size, param) : m.parts = 16

\* C16: in divideAndConquer, with exactly one partition no thread is ever
\* spawned and the task runs while the caller is inside the call to
\* computeMetrics; with more than one partition the caller never runs a task
\* itself and spawns one thread per task; when the globals have been read there
\* is one task per partition and every spawned thread has been joined.
C16_SyncOrThreadPerPartition ==
  (exe # ThreadPool /\ PlanMade) =>
    /\ parts = 1 =>
         /\ threads = <<>>
         /\ \A t \in TaskIds : tasks[t].pc # "done" => pc = "sync"
    /\ parts > 1 =>
         /\ pc # "sync"
         /\ Len(threads) = Len(tasks)
         /\ \A k \in 1..Len(threads) : threads[k] = k
    /\ Computed =>
         /\ Len(tasks) = parts
         /\ joined = Len(threads)
         /\ \A t \in TaskIds : tasks[t].pc = "done"

\* The single partition is being merged on the calling thread
C16_Witness ==
  /\ exe = DivideConquerMain
  /\ parts = 1
  /\ pc = "sync"
  /\ threads = <<>>
  /\ Len(tasks) = 1
  /\ tasks[1].pc = "merge"

\* Tasks that a pool thread is executing
Executing == {t \in TaskIds : tasks[t].pc \in {"new", "loop", "merge", "ran"}}

\* C20: in threadPool the pool's maximum thread count is the requested worker
\* count p, at every moment at most that many tasks are executing, and the
\* number of tasks submitted (the worker count after the clamp) never exceeds
\* it.
C20_PoolBoundedByRequest ==
  (exe = ThreadPool /\ PlanMade) =>
    /\ maxThreadCount = param
    /\ activeThreadCount <= maxThreadCount
    /\ Cardinality(Executing) = activeThreadCount
    /\ Len(tasks) <= maxThreadCount
    /\ parts <= maxThreadCount

\* More workers requested than elements, several tasks executing at once
C20_Witness ==
  /\ exe = ThreadPool
  /\ param > size
  /\ parts = size
  /\ Cardinality(Executing) >= 2
  /\ \E t \in TaskIds : tasks[t].pc = "loop"

\* C12 as stated: the thread count main reports, on the "Hilos" line and in
\* the second field of the CSV row, is the number of partitions the executor
\* used in the call.
C12_Original ==
  pc = "exit" =>
    /\ report.hilos = Len(tasks)
    /\ report.written => report.csv = Len(tasks)

C19_Original ==
  /\ (data # <<>> /\ ~OutOfRange) ~> (pc = "return")
  /\ []((data # <<>> /\ ~OutOfRange /\ pc # "return") => ENABLED Next)

====
